---- MODULE Spec2Model ----
(***************************************************************************)
(* A model of src/src/store.ts: the Restrict decorator (the permission     *)
(* registry kept by reflect-metadata) and the Store class (allowedToRead,  *)
(* allowedToWrite, read, write, writeEntries, entries, performRead,        *)
(* performWrite).                                                          *)
(*                                                                         *)
(* JavaScript values are records tagged by `kind`.  Strings are tuples of  *)
(* characters so that String.prototype.includes is a real substring test.  *)
(* A Store, a plain object and a function object all carry own properties  *)
(* (`fields`); a property that is not an own property is marked Absent.    *)
(* Stores are nested by value (a tree): the specification declares         *)
(* aliasing of one Store under two parents unsupported.                    *)
(* A path is kept as the list of its segments, i.e. the result of          *)
(* path.split(':') on a well-formed path (non-empty, colon-free segments). *)
(***************************************************************************)
EXTENDS Integers, Sequences, FiniteSets, TLC

VARIABLES
    metadata,   \* Reflect metadata 'permission': class -> property -> value
    store,      \* the root Store instance (Undef before construction)
    last,       \* the last call: its inputs, the state before it, its outcome
    nops        \* number of calls made so far

vars == <<metadata, store, last, nops>>

(***************************** bounds **************************************)
MaxPathLen == 3
MaxOps == 1
MaxDecls == 2

(***************************** strings *************************************)
R == <<"r">>
W == <<"w">>
RW == <<"r", "w">>
NONE == <<"n", "o", "n", "e">>
BOGUS == <<"b", "o", "g", "u", "s">>
EMPTY == <<>>

\* String.prototype.includes(sub)
Includes(s, sub) ==
    \E i \in 1..(Len(s) + 1) :
        /\ i + Len(sub) - 1 <= Len(s)
        /\ \A j \in 1..Len(sub) : s[i + j - 1] = sub[j]

\* the Permission type
Permission == {R, W, RW, NONE}

(***************************** values **************************************)
Keys == {"a", "b"}
PolicyKey == "defaultPolicy"
AllKeys == Keys \cup {PolicyKey}
Classes == {"Root", "Inner"}

Absent == [kind |-> "absent"]
Undef == [kind |-> "undefined"]
Str(s) == [kind |-> "string", s |-> s]
NoFields == [k \in AllKeys |-> Absent]
Obj(f) == [kind |-> "object", fields |-> f]
EmptyObj == Obj(NoFields)
\* a zero-argument function () => ret; `id` tells function objects apart
Fn(id, ret) == [kind |-> "function", id |-> id, ret |-> ret, fields |-> NoFields]

\* new <cls>() where the class sets defaultPolicy = policy
NewStore(cls, policy) ==
    [kind |-> "Store", cls |-> cls,
     fields |-> [NoFields EXCEPT ![PolicyKey] = Str(policy)]]

\* JavaScript truthiness
Truthy(v) ==
    CASE v.kind = "undefined" -> FALSE
      [] v.kind = "string" -> v.s # EMPTY
      [] OTHER -> TRUE

HasFields(v) == v.kind \in {"Store", "object", "function"}

\* current[key] for a current that is not undefined
Get(current, key) ==
    IF HasFields(current) /\ key \in AllKeys /\ current.fields[key] # Absent
    THEN current.fields[key]
    ELSE Undef

\* current[key] = v on an object, a Store or a function object
Put(current, key, v) == [current EXCEPT !.fields[key] = v]

\* Object.keys(current)
OwnKeys(current) == {k \in AllKeys : current.fields[k] # Absent}

(***************************** Restrict ************************************)
\* Reflect.getMetadata('permission', instance of cls, key)
GetMetadata(cls, key) ==
    IF key \in AllKeys THEN metadata[cls][key] ELSE Undef

\* Restrict(permission): throws, or yields the permission the decorator registers
RestrictOutcome(permission) ==
    IF Truthy(permission) /\ ~(permission.kind = "string" /\ permission.s \in Permission)
    THEN [err |-> "InvalidPermission", permission |-> Undef]
    ELSE [err |-> "none",
          permission |-> IF ~Truthy(permission) THEN Str(NONE) ELSE permission]

\* the decorator: Reflect.defineMetadata('permission', permission, target, propertyKey)
DefineMetadata(md, cls, key, permission) == [md EXCEPT ![cls][key] = permission]

(***************************** Store ***************************************)
\* faulty variant of allowedToRead: a declared 'none' counts as no declaration
allowedToReadNoneUndeclared(st, key) ==
    LET permission == GetMetadata(st.cls, key)
        policy == Get(st, PolicyKey)
    IN  IF Truthy(permission) /\ permission.s # NONE
        THEN [err |-> "none", val |-> Includes(permission.s, <<"r">>)]
        ELSE IF policy.kind = "string"
             THEN [err |-> "none", val |-> Includes(policy.s, <<"r">>)]
             ELSE [err |-> "TypeError", val |-> FALSE]

allowedToRead(st, key) ==
    LET permission == GetMetadata(st.cls, key)
        policy == Get(st, PolicyKey)
    IN  IF Truthy(permission)
        THEN [err |-> "none", val |-> Includes(permission.s, <<"r">>)]
        ELSE IF policy.kind = "string"
             THEN [err |-> "none", val |-> Includes(policy.s, <<"r">>)]
             ELSE [err |-> "TypeError", val |-> FALSE]

allowedToWrite(st, key) ==
    LET permission == GetMetadata(st.cls, key)
        policy == Get(st, PolicyKey)
    IN  IF Truthy(permission)
        THEN [err |-> "none", val |-> Includes(permission.s, <<"w">>)]
        ELSE IF policy.kind = "string"
             THEN [err |-> "none", val |-> Includes(policy.s, <<"w">>)]
             ELSE [err |-> "TypeError", val |-> FALSE]

\* keys[0]; the key of an empty list is undefined, i.e. the property "undefined"
KeyOf(keys) == IF keys = <<>> THEN "undefined" ELSE keys[1]
\* keys.slice(1)
Slice1(keys) == IF keys = <<>> THEN <<>> ELSE Tail(keys)

ReadOk(v, calls) == [err |-> "none", ret |-> v, calls |-> calls]
ReadErr(e, calls) == [err |-> e, ret |-> Undef, calls |-> calls]
\* the outcome r of a callee, reached after the functions in calls were invoked
After(calls, r) == [r EXCEPT !.calls = calls \o r.calls]

RECURSIVE performRead(_, _)
performRead(keys, current) ==
    LET key == KeyOf(keys) IN
    IF current.kind = "undefined" THEN ReadErr("TypeError", <<>>)
    ELSE LET v == Get(current, key) IN
         IF v.kind = "Store" THEN performRead(Slice1(keys), v)
         ELSE IF v.kind = "function"
              THEN IF Len(keys) = 1
                   THEN ReadOk(v.ret, <<v.id>>)
                   ELSE After(<<v.id>>, performRead(Slice1(keys), v.ret))
              ELSE IF Len(keys) > 1
                   THEN performRead(Slice1(keys), v)
                   ELSE ReadOk(v, <<>>)

RECURSIVE read(_, _)

\* faulty variant of read: the outer store checks the first segment before it
\* delegates to a nested Store
readOuterCheck(st, keys) ==
    LET key == keys[1]
        allowed == allowedToRead(st, key)
    IN  IF allowed.err # "none" THEN ReadErr(allowed.err, <<>>)
        ELSE IF ~allowed.val THEN ReadErr("PermissionDenied", <<>>)
        ELSE IF Len(keys) > 1 /\ Get(st, key).kind = "Store"
             THEN read(Get(st, key), Tail(keys))
             ELSE LET result == IF Len(keys) > 1
                                THEN performRead(keys, st)
                                ELSE ReadOk(Get(st, key), <<>>)
                  IN  IF result.err = "none" /\ result.ret.kind = "function"
                      THEN ReadOk(result.ret.ret, result.calls \o <<result.ret.id>>)
                      ELSE result

\* faulty variant of read: a function found at the path is returned as it is
readNoInvoke(st, keys) ==
    LET key == keys[1] IN
    IF Len(keys) > 1 /\ Get(st, key).kind = "Store"
    THEN read(Get(st, key), Tail(keys))
    ELSE LET allowed == allowedToRead(st, key) IN
         IF allowed.err # "none" THEN ReadErr(allowed.err, <<>>)
         ELSE IF ~allowed.val THEN ReadErr("PermissionDenied", <<>>)
         ELSE IF Len(keys) > 1
              THEN performRead(keys, st)
              ELSE ReadOk(Get(st, key), <<>>)

read(st, keys) ==
    LET key == keys[1] IN
    IF Len(keys) > 1 /\ Get(st, key).kind = "Store"
    THEN read(Get(st, key), Tail(keys))
    ELSE LET allowed == allowedToRead(st, key) IN
         IF allowed.err # "none" THEN ReadErr(allowed.err, <<>>)
         ELSE IF ~allowed.val THEN ReadErr("PermissionDenied", <<>>)
         ELSE LET result == IF Len(keys) > 1
                            THEN performRead(keys, st)
                            ELSE ReadOk(Get(st, key), <<>>)
              IN  IF result.err = "none" /\ result.ret.kind = "function"
                  THEN ReadOk(result.ret.ret, result.calls \o <<result.ret.id>>)
                  ELSE result

\* performWrite mutates in place: cur is the container after the call, also
\* when the call throws part-way
RECURSIVE performWrite(_, _, _)
performWrite(keys, value, current) ==
    LET key == keys[1] IN
    IF ~HasFields(current)
    THEN [err |-> "TypeError", cur |-> current]
    ELSE IF Len(keys) > 1
         THEN IF Get(current, key).kind = "Store"
              THEN LET r == performWrite(Tail(keys), value, Get(current, key))
                   IN  [err |-> r.err, cur |-> Put(current, key, r.cur)]
              ELSE LET child == IF Truthy(Get(current, key))
                                THEN Get(current, key)
                                ELSE EmptyObj
                       r == performWrite(Tail(keys), value, child)
                   IN  [err |-> r.err, cur |-> Put(current, key, r.cur)]
         ELSE [err |-> "none", cur |-> Put(current, key, value)]

WriteErr(e, st) == [err |-> e, ret |-> Undef, cur |-> st]

RECURSIVE write(_, _, _)
write(st, keys, value) ==
    LET key == keys[1] IN
    IF Len(keys) > 1 /\ Get(st, key).kind = "Store"
    THEN LET r == write(Get(st, key), Tail(keys), value)
         IN  [r EXCEPT !.cur = Put(st, key, r.cur)]
    ELSE LET allowed == allowedToWrite(st, key) IN
         IF allowed.err # "none" THEN WriteErr(allowed.err, st)
         ELSE IF ~allowed.val THEN WriteErr("PermissionDenied", st)
         ELSE LET r == performWrite(keys, value, st)
              IN  IF r.err = "none"
                  THEN [err |-> "none", ret |-> value, cur |-> r.cur]
                  ELSE WriteErr(r.err, r.cur)

\* for (const entry in entries) this[entry] = entries[entry]
writeEntries(st, es) ==
    [st EXCEPT !.fields = [k \in AllKeys |->
        IF es.fields[k] # Absent THEN es.fields[k] ELSE st.fields[k]]]

\* faulty variant of entries: every readable own field is returned, declared or not
entriesAllReadable(st) ==
    Obj([k \in AllKeys |->
        IF k \in OwnKeys(st) /\ allowedToRead(st, k).val
        THEN st.fields[k]
        ELSE Absent])

entries(st) ==
    Obj([k \in AllKeys |->
        IF /\ k \in OwnKeys(st)
           /\ Truthy(GetMetadata(st.cls, k))
           /\ allowedToRead(st, k).val
        THEN st.fields[k]
        ELSE Absent])

(***************************** inputs **************************************)
RECURSIVE SeqsUpTo(_, _)
SeqsUpTo(S, n) ==
    IF n = 0 THEN {<<>>}
    ELSE LET shorter == SeqsUpTo(S, n - 1)
         IN  shorter \cup {Append(s, x) : s \in shorter, x \in S}

\* paths over the field names, and the path "defaultPolicy"
Paths == (SeqsUpTo(Keys, MaxPathLen) \ {<<>>}) \cup {<<PolicyKey>>}

\* arguments of Restrict: none, the four permissions, and two invalid strings
RestrictArgs == {Undef} \cup {Str(p) : p \in Permission \cup {BOGUS, EMPTY}}

Lazy == Fn(1, Str(NONE))
\* an instance of class Inner { a = () => 'none'; defaultPolicy = policy }
NewInner(policy) == Put(NewStore("Inner", policy), "a", Lazy)
LazyStore == Fn(2, NewInner(NONE))
\* the plain object { a: Lazy, b: new Inner() }
Holder == Obj([NoFields EXCEPT !["a"] = Lazy, !["b"] = NewInner(NONE)])

\* values handed to write and writeEntries
Values == {Str(RW), Lazy, NewInner(NONE)}

\* mappings handed to writeEntries
EntryMaps == {Obj([NoFields EXCEPT ![k] = v]) : k \in Keys, v \in Values}

\* the field initializers of class Root: the values of a and b after construction
Initializers ==
    { <<Absent, Absent>>,
      <<NewInner(NONE), Absent>>,
      <<Holder, Str(RW)>>,
      <<LazyStore, Lazy>>,
      <<Lazy, Str(RW)>> }

\* new Root() for a class Root { defaultPolicy = policy; a = init[1]; b = init[2] }
NewRoot(policy, init) ==
    [kind |-> "Store", cls |-> "Root",
     fields |-> [NoFields EXCEPT ![PolicyKey] = Str(policy),
                                 !["a"] = init[1], !["b"] = init[2]]]

\* class definitions: the registries left by the decorators of a program
Decorate(md, cls, key, arg) ==
    DefineMetadata(md, cls, key, RestrictOutcome(arg).permission)
NoMetadata == [c \in Classes |-> [k \in AllKeys |-> Undef]]
Programs ==
    { NoMetadata,
      Decorate(Decorate(NoMetadata, "Root", "b", Str(R)), "Inner", "a", Str(RW)),
      Decorate(Decorate(Decorate(NoMetadata, "Root", "a", Undef),
                        "Root", "b", Str(RW)), "Inner", "a", Str(W)),
      Decorate(Decorate(NoMetadata, "Root", "a", Str(R)), "Inner", "a", Undef) }

(***************************** actions *************************************)
NoCall == [kind |-> "none"]

\* a program is loaded (its decorators have run) and the root store constructed
Init ==
    /\ metadata \in Programs
    /\ \E p \in Permission, init \in Initializers : store = NewRoot(p, init)
    /\ last = NoCall
    /\ nops = 0

CallRead(path) ==
    /\ nops < MaxOps
    /\ LET r == read(store, path) IN
       last' = [kind |-> "read", path |-> path, value |-> Undef, pre |-> store,
                err |-> r.err, ret |-> r.ret, calls |-> r.calls]
    /\ nops' = nops + 1
    /\ UNCHANGED <<metadata, store>>

CallWrite(path, value) ==
    /\ nops < MaxOps
    /\ LET r == write(store, path, value) IN
       /\ store' = r.cur
       /\ last' = [kind |-> "write", path |-> path, value |-> value, pre |-> store,
                   err |-> r.err, ret |-> r.ret, calls |-> <<>>]
    /\ nops' = nops + 1
    /\ UNCHANGED metadata

CallWriteEntries(es) ==
    /\ nops < MaxOps
    /\ store' = writeEntries(store, es)
    /\ last' = [kind |-> "writeEntries", path |-> <<>>, value |-> es, pre |-> store,
                err |-> "none", ret |-> Undef, calls |-> <<>>]
    /\ nops' = nops + 1
    /\ UNCHANGED metadata

CallEntries ==
    /\ nops < MaxOps
    /\ last' = [kind |-> "entries", path |-> <<>>, value |-> Undef, pre |-> store,
                err |-> "none", ret |-> entries(store), calls |-> <<>>]
    /\ nops' = nops + 1
    /\ UNCHANGED <<metadata, store>>

Next ==
    \/ \E path \in Paths : CallRead(path)
    \/ \E path \in Paths, value \in Values : CallWrite(path, value)
    \/ \E es \in EntryMaps : CallWriteEntries(es)
    \/ CallEntries

Spec == Init /\ [][Next]_vars

\* class definition time: decorators run, instances are constructed
InitDefine ==
    /\ metadata = NoMetadata
    /\ store = Undef
    /\ last = NoCall
    /\ nops = 0

Declare(cls, key, arg) ==
    /\ nops < MaxDecls
    /\ LET r == RestrictOutcome(arg) IN
       /\ metadata' = IF r.err = "none"
                      THEN DefineMetadata(metadata, cls, key, r.permission)
                      ELSE metadata
       /\ last' = [kind |-> "Restrict", cls |-> cls, key |-> key, arg |-> arg,
                   pre |-> metadata, err |-> r.err]
    /\ nops' = nops + 1
    /\ UNCHANGED store

Construct(cls, policy) ==
    /\ store' = NewStore(cls, policy)
    /\ UNCHANGED <<metadata, last, nops>>

NextDefine ==
    \/ \E cls \in Classes, key \in AllKeys, arg \in RestrictArgs : Declare(cls, key, arg)
    \/ \E cls \in Classes, policy \in Permission : Construct(cls, policy)

SpecDefine == InitDefine /\ [][NextDefine]_vars

(***************************** claims **************************************)
\* The permission in force for key on st as the specification defines it:
\* the declared permission if one is registered, else the store's defaultPolicy.
Effective(st, key) ==
    IF GetMetadata(st.cls, key) # Undef
    THEN GetMetadata(st.cls, key).s
    ELSE IF Get(st, PolicyKey).kind = "string" THEN Get(st, PolicyKey).s ELSE <<"?">>

IsCall(kinds) == last.kind \in kinds

\* C1: a declared permission (also a declared 'none', also a declaration made
\* with no argument) decides allowedToRead/allowedToWrite whatever defaultPolicy
\* is: read iff r or rw, write iff w or rw; an undeclared field follows
\* defaultPolicy by the same rule.
C1_AllowedFollowsDeclaration ==
    /\ (IsCall({"Restrict"}) /\ last.err = "none" /\ last.arg = Undef)
            => metadata[last.cls][last.key] = Str(NONE)
    /\ (IsCall({"Restrict"}) /\ last.arg # Undef /\ last.arg.s \in Permission)
            => (last.err = "none" /\ metadata[last.cls][last.key] = last.arg)
    /\ store # Undef =>
        \A key \in AllKeys :
            LET perm == Effective(store, key) IN
            /\ allowedToRead(store, key) = [err |-> "none", val |-> perm \in {R, RW}]
            /\ allowedToWrite(store, key) = [err |-> "none", val |-> perm \in {W, RW}]

\* C1 witness: a field declared with no argument on a store whose defaultPolicy
\* is rw is neither readable nor writable, while an undeclared one is both.
C1_Witness ==
    /\ IsCall({"Restrict"}) /\ last.arg = Undef /\ last.key = "a"
    /\ store # Undef /\ store.cls = last.cls
    /\ Get(store, PolicyKey) = Str(RW)
    /\ metadata[store.cls]["b"] = Undef
    /\ ~allowedToRead(store, "a").val /\ ~allowedToWrite(store, "a").val
    /\ allowedToRead(store, "b").val /\ allowedToWrite(store, "b").val

\* C6: a provided permission outside {r, w, rw, none} makes Restrict throw and
\* registers nothing.
C6_InvalidPermissionRejected ==
    (IsCall({"Restrict"}) /\ last.arg # Undef /\ last.arg.s \notin Permission)
        => (last.err = "InvalidPermission" /\ metadata = last.pre)

\* C7: entries() returns exactly the own fields that are declared and readable,
\* each with its stored value, and leaves the store as it was.
C7_EntriesDeclaredReadable ==
    IsCall({"entries"}) =>
        LET expected == {k \in AllKeys :
                            /\ store.fields[k] # Absent
                            /\ metadata[store.cls][k] # Undef
                            /\ metadata[store.cls][k].s \in {R, RW}}
        IN  /\ last.ret.kind = "object"
            /\ OwnKeys(last.ret) = expected
            /\ \A k \in expected : last.ret.fields[k] = store.fields[k]
            /\ store = last.pre

\* C7 witness: defaultPolicy is rw, an undeclared own field is held back and a
\* declared readable one is returned.
C7_Witness ==
    /\ IsCall({"entries"})
    /\ Get(store, PolicyKey) = Str(RW)
    /\ \E k \in Keys : store.fields[k] # Absent /\ metadata[store.cls][k] = Undef
                       /\ last.ret.fields[k] = Absent
    /\ \E k \in Keys : last.ret.fields[k] # Absent

\* The stored value a path addresses inside cur, functions met before the last
\* segment being invoked and their results traversed; thunks lists them.
RECURSIVE Resolve(_, _)
Resolve(cur, keys) ==
    LET v == Get(cur, keys[1]) IN
    IF Len(keys) = 1 THEN [found |-> TRUE, v |-> v, owner |-> cur, thunks |-> <<>>]
    ELSE LET nxt == IF v.kind = "function" THEN v.ret ELSE v
             met == IF v.kind = "function" THEN <<v.id>> ELSE <<>>
         IN  IF HasFields(nxt)
             THEN LET r == Resolve(nxt, Tail(keys))
                  IN  [r EXCEPT !.thunks = met \o r.thunks]
             ELSE [found |-> FALSE, v |-> Undef, owner |-> Undef, thunks |-> met]

\* C8: a read that succeeds on a path addressing a function returns the
\* function's result, not the function, and invokes each function on the path
\* exactly once.
C8_LazyEvaluation ==
    (IsCall({"read"}) /\ last.err = "none"
        /\ Resolve(last.pre, last.path).v.kind = "function")
    => LET r == Resolve(last.pre, last.path) IN
       /\ last.ret = r.v.ret
       /\ last.ret.kind # "function"
       /\ last.calls = r.thunks \o <<r.v.id>>

\* C8 witness: a function at an intermediate segment returns a Store whose
\* field is again a function; both are invoked once.
C8_Witness ==
    /\ IsCall({"read"}) /\ last.err = "none"
    /\ Len(last.path) = 2
    /\ Get(last.pre, last.path[1]) = LazyStore
    /\ Resolve(last.pre, last.path).v = Lazy
    /\ last.calls = <<LazyStore.id, Lazy.id>>
    /\ last.ret = Lazy.ret

\* the root store as it was before the last call, with another defaultPolicy
WithPolicy(st, p) == Put(st, PolicyKey, Str(p))

Delegated ==
    /\ IsCall({"read", "write"})
    /\ Len(last.path) > 1
    /\ Get(last.pre, last.path[1]).kind = "Store"

\* C2: when the first segment holds a nested Store T and more segments follow,
\* read and write have exactly the outcome (value, error, resulting state) of
\* T.read / T.write on the remaining path, whatever the outer defaultPolicy or
\* the outer declaration for the first segment.
C2_DelegationBoundary ==
    Delegated =>
        LET head == last.path[1]
            rest == Tail(last.path)
            T == Get(last.pre, head)
        IN  IF last.kind = "read"
            THEN LET r == read(T, rest) IN
                 /\ last.err = r.err /\ last.ret = r.ret /\ last.calls = r.calls
                 /\ store = last.pre
                 /\ \A p \in Permission : read(WithPolicy(last.pre, p), last.path) = r
            ELSE LET w == write(T, rest, last.value) IN
                 /\ last.err = w.err /\ last.ret = w.ret
                 /\ store = Put(last.pre, head, w.cur)
                 /\ \A p \in Permission :
                        LET wp == write(WithPolicy(last.pre, p), last.path, last.value)
                        IN  /\ wp.err = w.err /\ wp.ret = w.ret
                            /\ wp.cur = Put(WithPolicy(last.pre, p), head, w.cur)

\* C2 witness: the outer store allows nothing (defaultPolicy none, no
\* declaration for the first segment) and the delegated read succeeds under
\* the nested store's declaration.
C2_Witness ==
    /\ Delegated /\ last.kind = "read" /\ last.err = "none"
    /\ Effective(last.pre, last.path[1]) = NONE
    /\ Get(Get(last.pre, last.path[1]), PolicyKey) = Str(NONE)
    /\ Effective(Get(last.pre, last.path[1]), last.path[2]) = RW

\* C3: read fails with PermissionDenied whenever the field the path finally
\* resolves to belongs to a Store whose effective permission for it forbids
\* read, also when that Store is reached through a plain object or through
\* the result of a function.
C3_NestedStoreAuthorizesRead ==
    IsCall({"read"}) =>
        LET r == Resolve(last.pre, last.path) IN
        (r.found /\ r.owner.kind = "Store"
            /\ Effective(r.owner, last.path[Len(last.path)]) \in {W, NONE})
        => last.err = "PermissionDenied"

\* The container a write path addresses (no function is invoked on a write).
RECURSIVE WriteOwner(_, _)
WriteOwner(cur, keys) ==
    IF Len(keys) = 1 THEN cur
    ELSE IF HasFields(Get(cur, keys[1]))
         THEN WriteOwner(Get(cur, keys[1]), Tail(keys))
         ELSE Undef

\* C4: a write to a field whose effective permission in its owning Store is
\* read-only or none raises PermissionDenied and changes nothing.
C4_ForbiddenWriteDenied ==
    IsCall({"write"}) =>
        LET owner == WriteOwner(last.pre, last.path) IN
        (owner.kind = "Store"
            /\ Effective(owner, last.path[Len(last.path)]) \in {R, NONE})
        => (last.err = "PermissionDenied" /\ store = last.pre)

\* The store that authorizes a path and the segment it checks: the store the
\* leading nested-Store segments delegate to, and the first segment left.
RECURSIVE Boundary(_, _)
Boundary(st, keys) ==
    IF Len(keys) > 1 /\ Get(st, keys[1]).kind = "Store"
    THEN Boundary(Get(st, keys[1]), Tail(keys))
    ELSE [st |-> st, key |-> keys[1]]

\* C5: when write(p, v) succeeds and the permission at the store boundary of p
\* allows reading, write returned v and a read(p) that follows immediately
\* returns v.
C5_RoundTrip ==
    (IsCall({"write"}) /\ last.err = "none"
        /\ LET at == Boundary(store, last.path)
           IN  Effective(at.st, at.key) \in {R, RW})
    => /\ last.ret = last.value
       /\ read(store, last.path).err = "none"
       /\ read(store, last.path).ret = last.value

\* C9: read and write raise nothing but PermissionDenied; a read of a
\* multi-segment path whose first segment is readable returns undefined when
\* a segment, intermediate or last, is missing.
C9_OnlyPermissionDenied ==
    /\ IsCall({"read", "write"}) => last.err \in {"none", "PermissionDenied"}
    /\ (IsCall({"read"}) /\ Len(last.path) > 1
            /\ Get(last.pre, last.path[1]).kind # "Store"
            /\ Effective(last.pre, last.path[1]) \in {R, RW}
            /\ LET r == Resolve(last.pre, last.path) IN ~r.found \/ r.v = Undef)
       => (last.err = "none" /\ last.ret = Undef)

\* C10: no read or write call changes what allowedToRead or allowedToWrite
\* answer for any field of the store.
C10_PermissionsStable ==
    IsCall({"read", "write"}) =>
        \A k \in AllKeys :
            /\ allowedToRead(store, k) = allowedToRead(last.pre, k)
            /\ allowedToWrite(store, k) = allowedToWrite(last.pre, k)

====
